---- MODULE Spec2Model ----
(***************************************************************************)
(* Model of calgary_dogs.py: a MultiIndex DataFrame of dog registrations   *)
(* (Breed, Year, Month, Total) is loaded once; main() prompts for a breed  *)
(* until parse_breed accepts it and then prints three reports.             *)
(*                                                                         *)
(* Strings are sequences of one-character strings so that strip(),         *)
(* upper(), str(), int() and the lexicographic order used by list.sort()   *)
(* and by groupby's sorted keys are computed, not assumed.                 *)
(* A float percentage 100.0 * n / d is kept as the exact fraction          *)
(* <<100 * n, d>>; d = 0 stands for numpy's inf / nan result.              *)
(***************************************************************************)
EXTENDS Integers, Sequences, FiniteSets, TLC

VARIABLES df, breed_set, stdin, pc, found_breed, out

vars == <<df, breed_set, stdin, pc, found_breed, out>>

----------------------------------------------------------------------------
(* Bounds of the model *)

MaxRecs == 3
MaxLines == 2
MaxLen == 2

(* Program constants *)

YearFirst == 2021
YearLast == 2023

----------------------------------------------------------------------------
(* Characters and strings *)

CharCode ==
    (" " :> 32) @@
    ("0" :> 48) @@ ("1" :> 49) @@ ("2" :> 50) @@ ("3" :> 51) @@ ("4" :> 52) @@
    ("5" :> 53) @@ ("6" :> 54) @@ ("7" :> 55) @@ ("8" :> 56) @@ ("9" :> 57) @@
    ("A" :> 65) @@ ("B" :> 66) @@ ("E" :> 69) @@ ("F" :> 70) @@ ("J" :> 74) @@
    ("N" :> 78) @@ ("a" :> 97) @@ ("b" :> 98)

CharOf(n) == CHOOSE c \in DOMAIN CharCode : CharCode[c] = n

IsSpace(c) == c = " "

UpperChar(c) ==
    IF CharCode[c] \in 97..122 /\ \E d \in DOMAIN CharCode : CharCode[d] = CharCode[c] - 32
    THEN CharOf(CharCode[c] - 32)
    ELSE c

upper(s) == [i \in 1..Len(s) |-> UpperChar(s[i])]

RECURSIVE lstrip(_)
lstrip(s) == IF s # <<>> /\ IsSpace(Head(s)) THEN lstrip(Tail(s)) ELSE s

RECURSIVE rstrip(_)
rstrip(s) ==
    IF s # <<>> /\ IsSpace(s[Len(s)]) THEN rstrip(SubSeq(s, 1, Len(s) - 1)) ELSE s

strip(s) == rstrip(lstrip(s))

RECURSIVE StrLess(_, _)
StrLess(a, b) ==
    IF b = <<>> THEN FALSE
    ELSE IF a = <<>> THEN TRUE
    ELSE IF CharCode[Head(a)] # CharCode[Head(b)]
         THEN CharCode[Head(a)] < CharCode[Head(b)]
         ELSE StrLess(Tail(a), Tail(b))

RECURSIVE SortStrings(_)
SortStrings(S) ==
    IF S = {} THEN <<>>
    ELSE LET m == CHOOSE x \in S : \A y \in S : x = y \/ StrLess(x, y)
         IN <<m>> \o SortStrings(S \ {m})

RECURSIVE str(_)
str(n) ==
    IF n < 10 THEN <<CharOf(48 + n)>>
    ELSE str(n \div 10) \o <<CharOf(48 + (n % 10))>>

RECURSIVE int(_)
int(s) ==
    IF s = <<>> THEN 0
    ELSE 10 * int(SubSeq(s, 1, Len(s) - 1)) + (CharCode[s[Len(s)]] - 48)

----------------------------------------------------------------------------
(* Breed matching *)

make_string_friendly(s) == upper(strip(s))

parse_breed_unchecked(bs, s) == make_string_friendly(s)

parse_breed(bs, s) ==
    LET friendly_str == make_string_friendly(s)
    IN IF friendly_str \in bs THEN friendly_str ELSE <<>>

----------------------------------------------------------------------------------------------------------------------------------------------
(* The Record Store: rows of the DataFrame in file order, and the lines    *)
(* the user will type                                                      *)

DataYears == { 2021, 2022, 2024 }
DataMonths == { <<"J", "A", "N">>, <<"F", "E", "B">> }
DataTotals == { 0, 1 }

(* Frames for the total and yearly reports, which never read Month *)
Rows == [Breed : { <<"A">>, <<"B">> }, Year : DataYears, Month : { <<"J", "A", "N">> },
         Total : DataTotals]

Frames == UNION { [1..n -> Rows] : n \in 1..MaxRecs }

(* Frames for the monthly report, which reads Breed and Month only *)
MonthRows == [Breed : { <<"A">>, <<"B">> }, Year : { 2021, 2022 }, Month : DataMonths,
              Total : DataTotals]

MonthFrames == UNION { [1..n -> MonthRows] : n \in 1..MaxRecs }

(* Breeds as they may be spelled in the file, for the prompt loop *)
SpelledRows == [Breed : { <<"A">>, <<"B">>, <<"b">> }, Year : { 2021 },
                Month : { <<"J", "A", "N">> }, Total : { 1 }]

SpelledFrames == UNION { [1..n -> SpelledRows] : n \in 1..MaxRecs }

(* Lines waiting on standard input when it is a file or a pipe *)
TypedLines == { << <<" ", "a">> >>, << <<"b", " ">> >>, << <<>>, <<"A">> >> }

(* Lines a user at the terminal may type *)
Alphabet == { "A", "a", "B", "b", " " }

Inputs == UNION { [1..n -> Alphabet] : n \in 0..MaxLen }

year_range == YearFirst..YearLast

None == <<"None">>

----------
(* DataFrame queries *)

RECURSIVE TotalSum(_)
TotalSum(rows) == IF rows = <<>> THEN 0 ELSE Head(rows).Total + TotalSum(Tail(rows))

LocBreedInRange(d, b) == SelectSeq(d, LAMBDA r : r.Breed = b /\ r.Year \in year_range)

LocBreed(d, b) == SelectSeq(d, LAMBDA r : r.Breed = b)

LocYearAll(d, y) == d

LocYear(d, y) == SelectSeq(d, LAMBDA r : r.Year = y)

LocBreedYear(d, b, y) == SelectSeq(d, LAMBDA r : r.Breed = b /\ r.Year = y)

BreedYearMask(d, b, y) == SelectSeq(d, LAMBDA r : r.Breed = b /\ r.Year = y)

IndexBreeds(d) == { d[i].Breed : i \in DOMAIN d }

YearIncludedNonNegative(breed_year_total) == breed_year_total >= 0

YearIncluded(breed_year_total) == breed_year_total > 0

years_with_breed(d, b) ==
    { str(year) : year \in { y \in year_range : YearIncluded(TotalSum(BreedYearMask(d, b, y))) } }

Percent(part, whole) == <<100 * part, whole>>

YearPercentLineOwnBreed(d, b, year) ==
    LET breed_year_total == TotalSum(LocBreedYear(d, b, int(year)))
    IN [kind |-> "year_percent", breed |-> b, year |-> year,
        val |-> Percent(breed_year_total, breed_year_total)]

YearPercentLine(d, b, year) ==
    LET total_for_year == LocYear(d, int(year))
        breed_year_data == LocBreedYear(d, b, int(year))
        breed_year_total == TotalSum(breed_year_data)
        total_for_year_total == TotalSum(total_for_year)
    IN [kind |-> "year_percent", breed |-> b, year |-> year,
        val |-> Percent(breed_year_total, total_for_year_total)]

OverallPercentLineInRange(d, b) ==
    LET breed_all_time == TotalSum(LocBreed(d, b))
        total_all_time == TotalSum(SelectSeq(d, LAMBDA r : r.Year \in year_range))
    IN [kind |-> "overall_percent", breed |-> b, year |-> None,
        val |-> Percent(breed_all_time, total_all_time)]

OverallPercentLine(d, b) ==
    LET breed_all_time == TotalSum(LocBreed(d, b))
        total_all_time == TotalSum(d)
    IN [kind |-> "overall_percent", breed |-> b, year |-> None,
        val |-> Percent(breed_all_time, total_all_time)]

RECURSIVE GroupKeysFirstSeen(_)
GroupKeysFirstSeen(rows) ==
    IF rows = <<>> THEN <<>>
    ELSE <<Head(rows).Month>>
         \o GroupKeysFirstSeen(SelectSeq(Tail(rows), LAMBDA r : r.Month # Head(rows).Month))

GroupTotal(rows, m) == TotalSum(SelectSeq(rows, LAMBDA r : r.Month = m))

(* groupby('Month')['Month'].count(): one entry per month label of the     *)
(* breed's rows, keys in sorted order, value = number of rows              *)
GroupKeys(rows) == SortStrings({ rows[i].Month : i \in DOMAIN rows })

GroupCount(rows, m) == Len(SelectSeq(rows, LAMBDA r : r.Month = m))

number_of_monthly_appearances(d, b) ==
    LET rows == SelectSeq(d, LAMBDA r : r.Breed = b)
        keys == GroupKeys(rows)
    IN [i \in DOMAIN keys |-> [Month |-> keys[i], count |-> GroupCount(rows, keys[i])]]

SeriesMax(series) ==
    CHOOSE v \in { series[i].count : i \in DOMAIN series } :
        \A i \in DOMAIN series : series[i].count <= v

most_popular_months(d, b) ==
    LET series == number_of_monthly_appearances(d, b)
        max_number_of_monthly_appearances == SeriesMax(series)
        kept == SelectSeq(series, LAMBDA e : e.count = max_number_of_monthly_appearances)
    IN [i \in DOMAIN kept |-> kept[i].Month]

----------------------------------------------------------------------------
(* main *)

Line(kind, b, v) == [kind |-> kind, breed |-> b, year |-> None, val |-> v]

Init ==
    /\ df \in Frames
    /\ stdin \in TypedLines
    /\ breed_set = IndexBreeds(df)
    /\ pc = "prompt"
    /\ found_breed = <<>>
    /\ out = << Line("banner", None, None) >>

InitMonths ==
    /\ df \in MonthFrames
    /\ stdin \in TypedLines
    /\ breed_set = IndexBreeds(df)
    /\ pc = "prompt"
    /\ found_breed = <<>>
    /\ out = << Line("banner", None, None) >>

InitPrompt ==
    /\ df \in SpelledFrames
    /\ stdin = <<>>
    /\ breed_set = IndexBreeds(df)
    /\ pc = "prompt"
    /\ found_breed = <<>>
    /\ out = << Line("banner", None, None) >>

(* input() blocks at the terminal until the user types a line; at most     *)
(* MaxLines lines are typed in a run of the model                          *)
type_line(x) ==
    /\ pc = "prompt"
    /\ stdin = <<>>
    /\ Len(SelectSeq(out, LAMBDA l : l.kind = "not_found")) < MaxLines
    /\ stdin' = <<x>>
    /\ UNCHANGED <<df, breed_set, pc, found_breed, out>>

(* One iteration of the while loop of prompt_user_for_breed *)
prompt_user_for_breed ==
    /\ pc = "prompt"
    /\ stdin # <<>>
    /\ LET breed_input == Head(stdin)
           fb == parse_breed(breed_set, breed_input)
       IN IF fb = <<>>
          THEN /\ out' = Append(out, Line("not_found", None, None))
               /\ UNCHANGED <<pc, found_breed>>
          ELSE /\ found_breed' = fb
               /\ pc' = "total"
               /\ UNCHANGED out
    /\ stdin' = Tail(stdin)
    /\ UNCHANGED <<df, breed_set>>

(* input() at end of input raises EOFError, which nothing catches *)
end_of_input ==
    /\ pc = "prompt"
    /\ stdin = <<>>
    /\ pc' = "aborted"
    /\ UNCHANGED <<df, breed_set, stdin, found_breed, out>>

report_total_registrations ==
    /\ pc = "total"
    /\ LET total_reg == TotalSum(LocBreed(df, found_breed))
       IN out' = Append(out, Line("total", found_breed, total_reg))
    /\ pc' = "years"
    /\ UNCHANGED <<df, breed_set, stdin, found_breed>>

list_years_with_breed ==
    /\ pc = "years"
    /\ LET years_with_breed_list == SortStrings(years_with_breed(df, found_breed))
       IN out' = out
                 \o << Line("years", found_breed, years_with_breed_list) >>
                 \o [i \in DOMAIN years_with_breed_list |->
                        YearPercentLine(df, found_breed, years_with_breed_list[i])]
                 \o << OverallPercentLine(df, found_breed) >>
    /\ pc' = "months"
    /\ UNCHANGED <<df, breed_set, stdin, found_breed>>

list_most_popular_months ==
    /\ pc = "months"
    /\ out' = Append(out, Line("months", found_breed, most_popular_months(df, found_breed)))
    /\ pc' = "done"
    /\ UNCHANGED <<df, breed_set, stdin, found_breed>>

Next ==
    \/ prompt_user_for_breed
    \/ end_of_input
    \/ report_total_registrations
    \/ list_years_with_breed
    \/ list_most_popular_months

NextPrompt ==
    \/ \E x \in Inputs : type_line(x)
    \/ Next

Spec == Init /\ [][Next]_vars

SpecMonths == InitMonths /\ [][Next]_vars

SpecPrompt == InitPrompt /\ [][NextPrompt]_vars

----------------------------------------------------------------------------
(* Reference quantities, written over the set of row positions *)

RECURSIVE SetSum(_, _)
SetSum(d, S) ==
    IF S = {} THEN 0
    ELSE LET k == CHOOSE k \in S : TRUE IN d[k].Total + SetSum(d, S \ {k})

BreedRows(b) == { k \in DOMAIN df : df[k].Breed = b }

BreedYearRows(b, y) == { k \in DOMAIN df : df[k].Breed = b /\ df[k].Year = y }

YearRows(y) == { k \in DOMAIN df : df[k].Year = y }

RECURSIVE SumOverBreeds(_, _)
SumOverBreeds(B, y) ==
    IF B = {} THEN 0
    ELSE LET b == CHOOSE b \in B : TRUE
         IN TotalSum(LocBreedYear(df, b, y)) + SumOverBreeds(B \ {b}, y)

RECURSIVE SumOverBreedsAllTime(_)
SumOverBreedsAllTime(B) ==
    IF B = {} THEN 0
    ELSE LET b == CHOOSE b \in B : TRUE
         IN TotalSum(LocBreed(df, b)) + SumOverBreedsAllTime(B \ {b})

Permuted(d, p) == [k \in DOMAIN d |-> d[p[k]]]

Printed(kind) == { i \in DOMAIN out : out[i].kind = kind }

AllYears == 2019..2025

Elems(seq) == { seq[i] : i \in DOMAIN seq }

----------------------------------------------------------------------------
(* C1: the total printed by report_total_registrations is the sum of Total
   over every row of the chosen breed, whatever the year or month, and is
   the same for every reordering of the rows. *)
C1_TotalIsBreedSum ==
    \A i \in Printed("total") :
        /\ out[i].val = SetSum(df, BreedRows(out[i].breed))
        /\ \A p \in Permutations(DOMAIN df) :
              TotalSum(LocBreed(Permuted(df, p), out[i].breed)) = out[i].val

C1_Witness ==
    \E i \in Printed("total") :
        /\ out[i].val >= 2
        /\ \E k \in BreedRows(out[i].breed) : df[k].Year \notin year_range /\ df[k].Total > 0
        /\ \E k \in DOMAIN df : df[k].Breed # out[i].breed /\ df[k].Total > 0

(* C2: a year is listed by list_years_with_breed exactly when it lies in
   year_range and the breed's Total summed over that year is positive; the
   listed years ascend strictly. *)
C2_YearsListed ==
    \A i \in Printed("years") :
        LET L == out[i].val
        IN /\ \A y \in AllYears :
                 (str(y) \in Elems(L)) <=>
                 (y \in year_range /\ SetSum(df, BreedYearRows(out[i].breed, y)) > 0)
           /\ \A j \in DOMAIN L : int(L[j]) \in AllYears /\ str(int(L[j])) = L[j]
           /\ \A j, k \in DOMAIN L : j < k => int(L[j]) < int(L[k])

C2_Witness ==
    \E i \in Printed("years") :
        /\ Len(out[i].val) = 2
        /\ \E k \in BreedRows(out[i].breed) : df[k].Year \notin year_range /\ df[k].Total > 0
        /\ \E y \in year_range : str(y) \notin Elems(out[i].val)

(* C3: each per-year percentage is 100 * (breed's Total in the year) over
   (Total of all rows of the year, every breed); one percentage line follows
   for each listed year, in order, and its numerator is the sum that decided
   the year's listing. *)
C3_YearPercent ==
    \A i \in Printed("years") :
        LET L == out[i].val
        IN /\ Len(out) >= i + Len(L)
           /\ \A j \in DOMAIN L :
                 LET P == out[i + j]
                     y == int(L[j])
                 IN /\ P.kind = "year_percent" /\ P.year = L[j] /\ P.breed = out[i].breed
                    /\ SetSum(df, YearRows(y)) # 0
                    /\ P.val[2] # 0
                    /\ P.val[1] * SetSum(df, YearRows(y))
                         = 100 * SetSum(df, BreedYearRows(P.breed, y)) * P.val[2]
                    /\ P.val[1] = 100 * TotalSum(BreedYearMask(df, P.breed, y))
           /\ Cardinality(Printed("year_percent")) = Len(L)

C3_Witness ==
    \E i \in Printed("year_percent") :
        /\ out[i].val[1] # 100 * out[i].val[2]
        /\ \E k \in DOMAIN df : df[k].Year \notin year_range /\ df[k].Total > 0

(* C4: for every printed per-year percentage the year's grand total is
   positive, the percentage lies in (0, 100], and the numerators of all
   distinct breeds for that year add up to the year's total. *)
C4_YearPercentRange ==
    \A i \in Printed("year_percent") :
        LET P == out[i]
        IN /\ P.val[2] > 0
           /\ 0 < P.val[1] /\ P.val[1] <= 100 * P.val[2]
           /\ SumOverBreeds(IndexBreeds(df), int(P.year)) = P.val[2]

C4_Witness ==
    \E i \in Printed("year_percent") :
        /\ out[i].val[1] < 100 * out[i].val[2]
        /\ \E k \in DOMAIN df : df[k].Year = int(out[i].year) /\ df[k].Total = 0

(* C5 as stated: for every breed of the Breed Set the overall percentage
   is 100 * (breed's Total) / (Total of all rows), has a nonzero denominator
   and numerator, lies in (0, 100], and the numerators of all distinct
   breeds add up to the grand total. *)
C5_OverallAlwaysPositive ==
    \A i \in Printed("overall_percent") :
        LET P == out[i]
        IN /\ P.val[2] # 0 /\ P.val[1] # 0
           /\ P.val[1] * SetSum(df, DOMAIN df) = 100 * SetSum(df, BreedRows(P.breed)) * P.val[2]
           /\ 0 < P.val[1] /\ P.val[1] <= 100 * P.val[2]
           /\ SumOverBreedsAllTime(IndexBreeds(df)) = P.val[2]

(* C5 amended: the overall percentage is the fraction 100 * (breed's Total)
   over (Total of all rows); the numerators of all distinct breeds add up to
   that denominator; and when the breed has at least one registration the
   denominator is positive and the percentage lies in (0, 100], otherwise
   the numerator is 0. *)
C5_OverallPercent ==
    \A i \in Printed("overall_percent") :
        LET P == out[i]
            n == SetSum(df, BreedRows(P.breed))
        IN /\ P.val = <<100 * n, SetSum(df, DOMAIN df)>>
           /\ SumOverBreedsAllTime(IndexBreeds(df)) = P.val[2]
           /\ n > 0 => (P.val[2] > 0 /\ 0 < P.val[1] /\ P.val[1] <= 100 * P.val[2])
           /\ n = 0 => P.val[1] = 0

C5_Witness ==
    \E i \in Printed("overall_percent") :
        /\ 0 < out[i].val[1] /\ out[i].val[1] < 100 * out[i].val[2]
        /\ \E k \in BreedRows(out[i].breed) : df[k].Year \notin year_range /\ df[k].Total > 0

(* C6: list_most_popular_months prints a non-empty list, and a month label
   is in it exactly when the number of the breed's rows bearing that label
   (rows, not Total) equals the largest such number over all labels. *)
RowCount(b, m) == Cardinality({ k \in BreedRows(b) : df[k].Month = m })

C6_MostPopularMonths ==
    \A i \in Printed("months") :
        LET L == out[i].val
            b == out[i].breed
        IN /\ L # <<>>
           /\ \A m \in DataMonths :
                 (m \in Elems(L)) <=> (\A n \in DataMonths : RowCount(b, n) <= RowCount(b, m))

C6_Witness ==
    \E i \in Printed("months") :
        \E m \in DataMonths :
            /\ m \notin Elems(out[i].val)
            /\ RowCount(out[i].breed, m) > 0
            /\ \A n \in Elems(out[i].val) :
                   SetSum(df, { k \in BreedRows(out[i].breed) : df[k].Month = n })
                     < SetSum(df, { k \in BreedRows(out[i].breed) : df[k].Month = m })

(* C7 as stated: months tied for the maximum are printed in the order in
   which each first occurs among the breed's rows. *)
FirstRow(b, m) == CHOOSE k \in BreedRows(b) : df[k].Month = m /\
                      \A j \in BreedRows(b) : df[j].Month = m => k <= j

C7_TiesInFirstOccurrenceOrder ==
    \A i \in Printed("months") :
        LET L == out[i].val
        IN \A j, k \in DOMAIN L :
              j < k => FirstRow(out[i].breed, L[j]) < FirstRow(out[i].breed, L[k])

(* C7 amended: months tied for the maximum are all printed, each once, in
   ascending order of the month label (the sorted group keys of groupby). *)
C7_TiesInLabelOrder ==
    \A i \in Printed("months") :
        LET L == out[i].val
            b == out[i].breed
        IN /\ \A j, k \in DOMAIN L : j < k => StrLess(L[j], L[k])
           /\ \A m \in DataMonths :
                 (RowCount(b, m) > 0 /\ \A n \in DataMonths : RowCount(b, n) <= RowCount(b, m))
                 => m \in Elems(L)

C7_Witness ==
    \E i \in Printed("months") :
        /\ Len(out[i].val) = 2
        /\ FirstRow(out[i].breed, out[i].val[2]) < FirstRow(out[i].breed, out[i].val[1])

----------------------------------------------------------------------------
(* The prompt loop *)

ReportKinds == { "total", "years", "year_percent", "overall_percent", "months" }

Reports == SelectSeq(out, LAMBDA l : l.kind \in ReportKinds)

ReportKindsPrinted == [i \in DOMAIN Reports |-> Reports[i].kind]

YearLinesPrinted == [i \in 1..Cardinality(Printed("year_percent")) |-> "year_percent"]

ExpectedReports ==
    CASE pc \in { "prompt", "aborted", "total" } -> <<>>
      [] pc = "years" -> <<"total">>
      [] pc = "months" -> <<"total", "years">> \o YearLinesPrinted \o <<"overall_percent">>
      [] pc = "done" -> <<"total", "years">> \o YearLinesPrinted
                          \o <<"overall_percent", "months">>

C8_State ==
    /\ ReportKindsPrinted = ExpectedReports
    /\ \A i \in DOMAIN Reports : Reports[i].breed = found_breed
    /\ \A i, j \in DOMAIN out :
          (out[i].kind = "not_found" /\ out[j].kind \in ReportKinds) => i < j
    /\ pc \in { "prompt", "aborted" } => found_breed = <<>>
    /\ pc \in { "total", "years", "months", "done" } =>
          /\ found_breed # <<>>
          /\ found_breed \in breed_set
          /\ make_string_friendly(found_breed) = found_breed

C8_Step ==
    /\ (pc = "prompt" /\ stdin # <<>> /\ make_string_friendly(Head(stdin)) \notin breed_set)
          => /\ pc' = "prompt"
             /\ out' = Append(out, Line("not_found", None, None))
    /\ (pc = "prompt" /\ pc' = "total")
          => /\ found_breed' = make_string_friendly(Head(stdin))
             /\ out' = out
    /\ pc = "total" => pc' = "years"
    /\ pc = "years" => pc' = "months"
    /\ pc = "months" => pc' = "done"
    /\ pc \in { "done", "aborted" } => pc' = pc
    /\ (pc = "prompt" /\ stdin = <<>> /\ pc' = "prompt") => out' = out

(* C8: every typed line whose normalized form is not in breed_set gets the
   not-found message and another prompt, however many came before; nothing
   is reported before a line is accepted; the accepted breed is a non-empty
   normalized member of breed_set; and then total, yearly breakdown and
   most popular months are printed once each, in that order, for it. *)
C8_PromptThenReports == [](C8_State) /\ [][C8_Step]_vars

C8_Witness ==
    /\ pc = "done"
    /\ Cardinality(Printed("not_found")) = MaxLines - 1
    /\ Cardinality(breed_set) >= 2

LetterOf(c) == IF CharCode[c] \in 97..122 THEN CharCode[c] - 32 ELSE CharCode[c]

Spaces(n) == [i \in 1..n |-> " "]

(* v is b with the case of some letters changed and blanks put around it *)
IsVariant(v, b) ==
    \E l, r \in 0..MaxLen :
        /\ Len(v) = l + Len(b) + r
        /\ SubSeq(v, 1, l) = Spaces(l)
        /\ SubSeq(v, l + Len(b) + 1, Len(v)) = Spaces(r)
        /\ \A i \in 1..Len(b) : LetterOf(v[l + i]) = LetterOf(b[i])

C9_Step ==
    (pc = "prompt" /\ stdin # <<>>) =>
        LET x == Head(stdin)
        IN /\ make_string_friendly(make_string_friendly(x)) = make_string_friendly(x)
           /\ \A b \in breed_set :
                 IsVariant(x, b) =>
                    /\ make_string_friendly(x) = make_string_friendly(b)
                    /\ parse_breed(breed_set, x) = make_string_friendly(b)
                    /\ found_breed' = make_string_friendly(b)

(* C9: make_string_friendly is idempotent on every typed line, and a line
   that is a case or whitespace variant of a known breed normalizes to the
   same value as that breed, which parse_breed returns and the prompt
   accepts. *)
C9_NormalizeAndMatch == [][C9_Step]_vars

(* C10: breed_set is the set of normalized breed names of the rows, so
   every row's breed, however spelled in the file, can be chosen by some
   typed line, and that line selects the row. *)
C10_EveryBreedSelectable ==
    /\ breed_set = { make_string_friendly(df[k].Breed) : k \in DOMAIN df }
    /\ \A k \in DOMAIN df :
          \E x \in Inputs :
              /\ parse_breed(breed_set, x) # <<>>
              /\ k \in BreedRows(parse_breed(breed_set, x))

====
